---- MODULE Spec2Model ----
(***************************************************************************)
(* A model of lib/index.js of realtime-config: the RealtimeConfig class,   *)
(* its constructor, its update() poll cycle, the file it watches, the      *)
(* EventEmitter it extends and the timer queue that drives its polls.      *)
(***************************************************************************)
EXTENDS Integers, Sequences, FiniteSets

VARIABLES files, used, status, options, listeners, config, fields, timers, last,
          crashed

vars == <<files, used, status, options, listeners, config, fields, timers, last, crashed>>

(***************************************************************************)
(* Bounds of the model.                                                    *)
(***************************************************************************)
\* modification timestamps are drawn from 0 .. MaxTime (Number(stat.mtime))
MaxTime == 2

\* the watcher objects a program may construct, and the ones the base
\* specification constructs
Watchers == {"A", "B"}
MainWatchers == {"A"}

\* the paths of the file system, and the ones the base specification uses
Paths == {"test1.YAML", "test2.js", "test1.json", "conf.Yml", "test2-1.config"}
MainPaths == {"test2.js"}

Times == 0 .. MaxTime

(***************************************************************************)
(* JavaScript values.  An object is the sequence of its <<key, value>>     *)
(* pairs in insertion order (the order Object.keys and JSON.stringify      *)
(* follow); null stands for null and undefined, which Object.keys rejects. *)
(***************************************************************************)
Obj(entries) == [type |-> "object", entries |-> entries]
Null == [type |-> "null", entries |-> <<>>]
EmptyObject == Obj(<<>>)

\* Object.keys(o), as a sequence
ObjectKeys(o) == [i \in 1 .. Len(o.entries) |-> o.entries[i][1]]

KeySet(o) == {o.entries[i][1] : i \in 1 .. Len(o.entries)}

\* o[key] for a key that o has
Get(o, key) ==
    LET i == CHOOSE j \in 1 .. Len(o.entries) : o.entries[j][1] = key
    IN  o.entries[i][2]

\* o[key] = value: an existing key keeps its position, a new one is appended
Put(o, key, value) ==
    IF key \in KeySet(o)
    THEN Obj([i \in 1 .. Len(o.entries) |->
                 IF o.entries[i][1] = key THEN <<key, value>> ELSE o.entries[i]])
    ELSE Obj(Append(o.entries, <<key, value>>))

(***************************************************************************)
(* The contents a configuration file may have, with what the two parsers   *)
(* make of each.                                                           *)
(***************************************************************************)
TextObject == "{host: '127.0.0.1', port: 3309}"
TextModule == "module.exports = {host: '192.168.0.1'}"
TextError == "#error"
TextNull == "null"

Texts == {TextObject, TextModule, TextError, TextNull}

\* a mapping that names module.exports in a string
TextQuoted == "{port: 3309, note: 'module.exports'}"
QuotedValue == Obj(<<<<"port", "3309">>, <<"note", "module.exports">>>>)

ObjectValue == Obj(<<<<"host", "127.0.0.1">>, <<"port", "3309">>>>)
ModuleValue == Obj(<<<<"host", "192.168.0.1">>>>)

Returned(value) == [threw |-> FALSE, value |-> value, message |-> ""]
Thrown(message) == [threw |-> TRUE, value |-> Null, message |-> message]

\* yaml.safeLoad(content)
SafeLoad(content) ==
    CASE content = TextObject -> Returned(ObjectValue)
      [] content = TextModule -> Thrown("YAMLException")
      [] content = TextError -> Returned(Null)
      [] content = TextNull -> Returned(Null)
      [] content = TextQuoted -> Returned(QuotedValue)

\* content.indexOf('module.exports') >= 0
HasModuleExports(content) == content \in {TextModule, TextQuoted}

\* new Function(`var module = {exports: {}};${content};return module.exports`)()
\* (a content that assigns nothing to module.exports leaves it empty)
EvalModule(content) ==
    CASE content = TextModule -> Returned(ModuleValue)
      [] OTHER -> Returned(EmptyObject)

\* new Function(`return (${content})`)()
EvalExpression(content) ==
    CASE content = TextObject -> Returned(ObjectValue)
      [] content = TextModule -> Thrown("Invalid left-hand side in assignment")
      [] content = TextError -> Thrown("Invalid or unexpected token")
      [] content = TextNull -> Returned(Null)
      [] content = TextQuoted -> Returned(QuotedValue)

\* path.extname(filename)
ExtName(filename) ==
    CASE filename = "test1.YAML" -> ".YAML"
      [] filename = "test2.js" -> ".js"
      [] filename = "test1.json" -> ".json"
      [] filename = "conf.Yml" -> ".Yml"
      [] filename = "test2-1.config" -> ".config"
      [] OTHER -> ""

\* String.prototype.toLowerCase, on the extensions above
ToLowerCase(ext) ==
    CASE ext = ".YAML" -> ".yaml"
      [] ext = ".Yml" -> ".yml"
      [] OTHER -> ext

\* a switch on the extension as it is written
ParseModeCaseSensitive(filename, content) ==
    IF ExtName(filename) \in {".yaml", ".yml", ".json"}
    THEN "yaml"
    ELSE IF HasModuleExports(content) THEN "module" ELSE "expression"

\* the switch of update(): the parser the extension selects
ParseMode(filename, content) ==
    IF ToLowerCase(ExtName(filename)) \in {".yaml", ".yml", ".json"}
    THEN "yaml"
    ELSE IF HasModuleExports(content) THEN "module" ELSE "expression"

Parse(filename, content) ==
    CASE ParseMode(filename, content) = "yaml" -> SafeLoad(content)
      [] ParseMode(filename, content) = "module" -> EvalModule(content)
      [] ParseMode(filename, content) = "expression" -> EvalExpression(content)

(***************************************************************************)
(* The file system: fs.statSync and fs.readFileSync of one path.           *)
(***************************************************************************)
NoFile == [exists |-> FALSE, mtime |-> 0, content |-> TextNull]
File(mtime, content) == [exists |-> TRUE, mtime |-> mtime, content |-> content]
FileStates == {NoFile} \cup {File(t, c) : t \in Times, c \in Texts}

\* fs.statSync(path): fails exactly when the path does not exist
StatThrows(file) == ~file.exists

\* fs.readFileSync(path): fails exactly when the path does not exist
ReadThrows(file) == ~file.exists

(***************************************************************************)
(* Options, listeners and events.                                          *)
(***************************************************************************)
DefaultInterval == 60000
ShortInterval == 500

\* what a handler given in the options does when it is called; "none" is
\* an option that is not a function
Handlers == {"none", "ok", "raise"}

\* the options argument of the constructor; an absent interval or debug is
\* the empty sequence
UserOptions ==
    [interval : {<<>>, <<ShortInterval>>}, debug : {<<>>, <<TRUE>>},
     onupdate : Handlers, onerror : Handlers]

\* Object.assign({interval: 60000, modifyTime: 0, filename: filename}, options)
AssignOptions(filename, opts) ==
    [interval |-> IF opts.interval = <<>> THEN DefaultInterval ELSE opts.interval[1],
     modifyTime |-> 0,
     filename |-> filename,
     debug |-> IF opts.debug = <<>> THEN FALSE ELSE opts.debug[1],
     onupdate |-> opts.onupdate,
     onerror |-> opts.onerror]

NoOptions ==
    [interval |-> DefaultInterval, modifyTime |-> 0, filename |-> "",
     debug |-> FALSE, onupdate |-> "none", onerror |-> "none"]

\* this.on(type, handler) for the handlers that are functions
Register(handler) == IF handler = "none" THEN <<>> ELSE <<handler>>

NoListeners == [update |-> <<>>, error |-> <<>>]

\* an emit that lets an 'error' without a listener pass
EmitThrowsListener(ls, type) ==
    \E i \in 1 .. Len(ls[type]) : ls[type][i] = "raise"

\* EventEmitter.emit(type, ...): the listeners run in order and an exception
\* of one of them leaves emit; 'error' without a listener throws
EmitThrows(ls, type) ==
    \/ type = "error" /\ ls.error = <<>>
    \/ \E i \in 1 .. Len(ls[type]) : ls[type][i] = "raise"

EmitMessage(ls, type) ==
    IF type = "error" /\ ls.error = <<>> THEN "Unhandled error." ELSE "handler raised"

\* the number of listeners one emit calls
Delivered(ls, type) ==
    IF \E i \in 1 .. Len(ls[type]) : ls[type][i] = "raise"
    THEN CHOOSE i \in 1 .. Len(ls[type]) :
             /\ ls[type][i] = "raise"
             /\ \A j \in 1 .. (i - 1) : ls[type][j] # "raise"
    ELSE Len(ls[type])

\* one call of emit, as the cycle records it
UpdateEvent(ls, c) ==
    [type |-> "update", data |-> c, message |-> "", calls |-> Delivered(ls, "update")]
ErrorEvent(ls, message) ==
    [type |-> "error", data |-> Null, message |-> message,
     calls |-> Delivered(ls, "error")]

(***************************************************************************)
(* update(): one poll cycle.  statFile is the file as fs.statSync finds    *)
(* it, readFile the file as fs.readFileSync finds it (another process may  *)
(* have written in between).                                               *)
(***************************************************************************)
NoStat == 0 - 1

\* a merge that replaces the mapping by the parsed one
MergeReplace(cfg, c, i) == c

\* Object.keys(c).forEach(key => { config[key] = c[key] })
RECURSIVE Merge(_, _, _)
Merge(cfg, c, i) ==
    IF i > Len(c.entries) THEN cfg
    ELSE Merge(Put(cfg, c.entries[i][1], c.entries[i][2]), c, i + 1)

\* properties defined for the keys of the parsed mapping only, each bound
\* once
DefinePropertiesOnce(flds, cfg) == flds

\* Object.keys(config).forEach(key => Object.defineProperty(this, key, ...))
DefineProperties(flds, cfg) == flds \cup KeySet(cfg)

\* a comparison that takes only a newer file as modified
ModifiedNewer(modifyTime, mtime) == modifyTime < mtime

\* a comparison that takes every file as modified
ModifiedAlways(modifyTime, mtime) == TRUE

\* options.modifyTime !== Number(stat.mtime)
Modified(modifyTime, mtime) == modifyTime # mtime

\* the try block before anything has happened
Entry(opt, cfg, flds) ==
    [modifyTime |-> opt.modifyTime, config |-> cfg, fields |-> flds,
     events |-> <<>>, threw |-> FALSE, message |-> "",
     outcome |-> "unchanged", stat |-> NoStat, read |-> FALSE, mode |-> "none"]

\* a stat failure that is swallowed
OnStatErrorSilent(t) == [t EXCEPT !.outcome = "statfail"]

\* fs.statSync throws
OnStatError(t) ==
    [t EXCEPT !.threw = TRUE, !.message = "ENOENT", !.outcome = "statfail"]

\* fs.readFileSync throws
OnReadError(t) ==
    [t EXCEPT !.threw = TRUE, !.message = "ENOENT", !.outcome = "readfail"]

\* a parse failure after options.modifyTime was set
OnParseErrorLate(t, message) ==
    [t EXCEPT !.read = TRUE, !.modifyTime = t.stat, !.threw = TRUE,
              !.message = message, !.outcome = "parsefail"]

\* the parser throws
OnParseError(t, message) ==
    [t EXCEPT !.read = TRUE, !.threw = TRUE, !.message = message,
              !.outcome = "parsefail"]

\* the parser returns null or undefined: options.modifyTime is set and
\* Object.keys(c) throws
OnNotMapping(t, mtime) ==
    [t EXCEPT !.read = TRUE, !.modifyTime = mtime, !.threw = TRUE,
              !.message = "Cannot convert undefined or null to object",
              !.outcome = "notmapping"]

\* a load that keeps the newer of modifyTime and the timestamp of the file
OnParsedNewest(t, ls, mtime, c) ==
    LET merged == Merge(t.config, c, 1)
        newest == IF mtime > t.modifyTime THEN mtime ELSE t.modifyTime
    IN  [t EXCEPT !.read = TRUE, !.modifyTime = newest,
                  !.config = merged,
                  !.fields = DefineProperties(t.fields, merged),
                  !.events = <<UpdateEvent(ls, c)>>,
                  !.threw = EmitThrows(ls, "update"),
                  !.message = EmitMessage(ls, "update"),
                  !.outcome = "loaded"]

\* the parser returns an object: modifyTime, the merge, the properties and
\* the update event, whose listener may throw
OnParsed(t, ls, mtime, c) ==
    LET merged == Merge(t.config, c, 1)
    IN  [t EXCEPT !.read = TRUE, !.modifyTime = mtime,
                  !.config = merged,
                  !.fields = DefineProperties(t.fields, merged),
                  !.events = <<UpdateEvent(ls, c)>>,
                  !.threw = EmitThrows(ls, "update"),
                  !.message = EmitMessage(ls, "update"),
                  !.outcome = "loaded"]

\* a try block that reads the file before it stats it
TryBlockReadFirst(opt, ls, cfg, flds, statFile, readFile) ==
    LET t == Entry(opt, cfg, flds)
        s == [t EXCEPT !.stat = readFile.mtime]
        parsed == Parse(opt.filename, statFile.content)
        m == [s EXCEPT !.mode = ParseMode(opt.filename, statFile.content)]
    IN  IF ReadThrows(statFile) THEN OnReadError(t)
        ELSE IF StatThrows(readFile) THEN OnStatError(t)
        ELSE IF ~Modified(opt.modifyTime, readFile.mtime) THEN s
        ELSE IF parsed.threw THEN OnParseError(m, parsed.message)
        ELSE IF parsed.value.type = "null" THEN OnNotMapping(m, readFile.mtime)
        ELSE OnParsed(m, ls, readFile.mtime, parsed.value)

\* the try block of update()
TryBlock(opt, ls, cfg, flds, statFile, readFile) ==
    LET t == Entry(opt, cfg, flds)
        s == [t EXCEPT !.stat = statFile.mtime]
        parsed == Parse(opt.filename, readFile.content)
        m == [s EXCEPT !.mode = ParseMode(opt.filename, readFile.content)]
    IN  IF StatThrows(statFile) THEN OnStatError(t)
        ELSE IF ~Modified(opt.modifyTime, statFile.mtime) THEN s
        ELSE IF ReadThrows(readFile) THEN OnReadError(s)
        ELSE IF parsed.threw THEN OnParseError(m, parsed.message)
        ELSE IF parsed.value.type = "null" THEN OnNotMapping(m, statFile.mtime)
        ELSE OnParsed(m, ls, statFile.mtime, parsed.value)

\* the catch block: this.emit('error', ex.message), then the debug output
CatchBlock(opt, ls, t) ==
    [events |-> IF t.threw THEN Append(t.events, ErrorEvent(ls, t.message))
                ELSE t.events,
     raised |-> t.threw /\ EmitThrows(ls, "error"),
     logged |-> t.threw /\ ~EmitThrows(ls, "error") /\ opt.debug]

\* a timer armed before the try block and again after it
ScheduleTwice(opt, raised) ==
    IF raised THEN <<opt.interval>> ELSE <<opt.interval, opt.interval>>

\* setTimeout(() => this.update(), options.interval), which an exception
\* leaving the catch block does not reach
Schedule(opt, raised) == IF raised THEN <<>> ELSE <<opt.interval>>

\* update()
Cycle(opt, ls, cfg, flds, statFile, readFile) ==
    LET t == TryBlock(opt, ls, cfg, flds, statFile, readFile)
        c == CatchBlock(opt, ls, t)
    IN  [modifyTime |-> t.modifyTime,
         config |-> t.config,
         fields |-> t.fields,
         outcome |-> t.outcome,
         stat |-> t.stat,
         read |-> t.read,
         mode |-> t.mode,
         events |-> c.events,
         raised |-> c.raised,
         logged |-> c.logged,
         scheduled |-> Schedule(opt, c.raised)]

\* what the last cycle of a watcher did; tick alternates from cycle to cycle
NoCycle ==
    [op |-> "none", tick |-> 0, outcome |-> "unchanged", stat |-> NoStat,
     read |-> FALSE, mode |-> "none", events |-> <<>>, raised |-> FALSE,
     logged |-> FALSE]

Record(op, tick, r) ==
    [op |-> op, tick |-> 1 - tick, outcome |-> r.outcome, stat |-> r.stat,
     read |-> r.read, mode |-> r.mode, events |-> r.events, raised |-> r.raised,
     logged |-> r.logged]

\* the cycle got to fs.readFileSync
Reads(r) == r.read \/ r.outcome = "readfail"

(***************************************************************************)
(* The state and its operations.  used is the set of timestamps the writes *)
(* of a timestamp-fresh writer have given so far.                          *)
(***************************************************************************)
Init ==
    /\ files = [p \in Paths |-> NoFile]
    /\ used = {}
    /\ status = [w \in Watchers |-> "none"]
    /\ options = [w \in Watchers |-> NoOptions]
    /\ listeners = [w \in Watchers |-> NoListeners]
    /\ config = [w \in Watchers |-> EmptyObject]
    /\ fields = [w \in Watchers |-> {}]
    /\ timers = [w \in Watchers |-> <<>>]
    /\ last = [w \in Watchers |-> NoCycle]
    /\ crashed = FALSE

\* some watcher of the program (ws: the watchers it constructs) can still
\* run a cycle: files are followed only as long as a cycle can read them
Observed(ws) ==
    /\ ~crashed
    /\ {w \in ws : status[w] = "none" \/ timers[w] # <<>>} # {}

\* fs.writeFileSync(p, content) by any process, with the timestamp it gets
WriteFile(ws, p, mtime, content) ==
    /\ Observed(ws)
    /\ files' = [files EXCEPT ![p] = File(mtime, content)]
    /\ UNCHANGED <<status, options, listeners, config, fields, timers, last, crashed>>

\* fs.unlinkSync(p) by any process
Unlink(ws, p) ==
    /\ Observed(ws)
    /\ files[p].exists
    /\ files' = [files EXCEPT ![p] = NoFile]
    /\ UNCHANGED <<status, options, listeners, config, fields, timers, last, crashed>>

\* new RealtimeConfig(filename, opts); readFile is the file at the read of
\* the first cycle: the file of the stat, or what another process has made
\* of it since
Construct(w, filename, opts, readFile) ==
    /\ ~crashed
    /\ status[w] = "none"
    /\ LET opt == AssignOptions(filename, opts)
           ls == [update |-> Register(opts.onupdate), error |-> Register(opts.onerror)]
           r == Cycle(opt, ls, EmptyObject, fields[w], files[filename], readFile)
       IN  /\ Reads(r) \/ readFile = files[filename]
           /\ files' = [files EXCEPT ![filename] = readFile]
           /\ options' = [options EXCEPT ![w] = [opt EXCEPT !.modifyTime = r.modifyTime]]
           /\ listeners' = [listeners EXCEPT ![w] = ls]
           /\ config' = [config EXCEPT ![w] = r.config]
           /\ fields' = [fields EXCEPT ![w] = r.fields]
           /\ timers' = [timers EXCEPT ![w] = r.scheduled]
           /\ last' = [last EXCEPT ![w] = Record("construct", @.tick, r)]
           /\ status' = [status EXCEPT ![w] = IF r.raised THEN "threw" ELSE "ok"]
    /\ UNCHANGED crashed

\* the callback of setTimeout: this.update(); readFile is the file at the
\* read of this cycle.  An exception that leaves the callback is uncaught:
\* the process ends (fatal) unless it has an uncaughtException handler.
Update(w, readFile, fatal) ==
    /\ ~crashed
    /\ status[w] = "ok"
    /\ timers[w] # <<>>
    /\ LET r == Cycle(options[w], listeners[w], config[w], fields[w],
                      files[options[w].filename], readFile)
       IN  /\ Reads(r) \/ readFile = files[options[w].filename]
           /\ fatal => r.raised
           /\ files' = [files EXCEPT ![options[w].filename] = readFile]
           /\ crashed' = fatal
           /\ options' = [options EXCEPT ![w].modifyTime = r.modifyTime]
           /\ config' = [config EXCEPT ![w] = r.config]
           /\ fields' = [fields EXCEPT ![w] = r.fields]
           /\ timers' = [timers EXCEPT ![w] = Tail(@) \o r.scheduled]
           /\ last' = [last EXCEPT ![w] = Record("timer", @.tick, r)]
    /\ UNCHANGED <<status, listeners>>

\* the base specification: one watcher on one path, written by processes
\* that give a file any timestamp
Next ==
    /\ \/ \E p \in MainPaths, t \in Times, c \in Texts :
              WriteFile(MainWatchers, p, t, c)
       \/ \E p \in MainPaths : Unlink(MainWatchers, p)
       \/ \E w \in MainWatchers, p \in MainPaths, o \in UserOptions, f \in FileStates :
              Construct(w, p, o, f)
       \/ \E w \in MainWatchers, f \in FileStates, fatal \in BOOLEAN :
              Update(w, f, fatal)
    /\ UNCHANGED used

Spec == Init /\ [][Next]_vars

\* the parse specification: one watcher on any of the paths, with handlers
\* that return; every file starts with the same content, and the file the
\* watcher is on is rewritten with any content
ParseTexts == Texts \cup {TextQuoted}

ParseOptions ==
    {o \in UserOptions : o.onupdate = "ok" /\ o.onerror = "ok" /\ o.debug = <<>>}

InitParse ==
    /\ \E c \in ParseTexts : files = [p \in Paths |-> File(1, c)]
    /\ used = {}
    /\ status = [w \in Watchers |-> "none"]
    /\ options = [w \in Watchers |-> NoOptions]
    /\ listeners = [w \in Watchers |-> NoListeners]
    /\ config = [w \in Watchers |-> EmptyObject]
    /\ fields = [w \in Watchers |-> {}]
    /\ timers = [w \in Watchers |-> <<>>]
    /\ last = [w \in Watchers |-> NoCycle]
    /\ crashed = FALSE

NextParse ==
    /\ \/ \E w \in MainWatchers, t \in Times, c \in ParseTexts :
              /\ status[w] = "ok"
              /\ WriteFile(MainWatchers, options[w].filename, t, c)
       \/ \E w \in MainWatchers, p \in Paths, o \in ParseOptions :
              Construct(w, p, o, files[p])
       \/ \E w \in MainWatchers : Update(w, files[options[w].filename], FALSE)
    /\ UNCHANGED used

SpecParse == InitParse /\ [][NextParse]_vars

\* the specification of two watchers, on the same path or on two paths,
\* without handlers or with an onerror handler that returns; a file is
\* written with a content that loads, or unlinked
MultiPaths == {"test2.js", "test1.json"}

MultiOptions ==
    {o \in UserOptions :
        /\ o.onupdate = "none" /\ o.onerror \in {"none", "ok"}
        /\ o.interval = <<>> /\ o.debug = <<>>}

NextMulti ==
    /\ \/ \E p \in MultiPaths, t \in Times : WriteFile(Watchers, p, t, TextObject)
       \/ \E p \in MultiPaths : Unlink(Watchers, p)
       \/ \E w \in Watchers, p \in MultiPaths, o \in MultiOptions :
              Construct(w, p, o, files[p])
       \/ \E w \in Watchers, fatal \in BOOLEAN :
              Update(w, files[options[w].filename], fatal)
    /\ UNCHANGED used

SpecMulti == Init /\ [][NextMulti]_vars

\* the specification of the timestamp-fresh writer: every write, also one
\* between the stat and the read of a cycle, gives the file a timestamp
\* that is not 0 and that no earlier write has given
Fresh(t) == t # 0 /\ t \notin used

Raced(file, readFile) ==
    IF readFile = file \/ ~readFile.exists
    THEN used' = used
    ELSE Fresh(readFile.mtime) /\ used' = used \cup {readFile.mtime}

NextWriter ==
    \/ \E p \in MainPaths, t \in Times, c \in Texts :
           /\ Fresh(t)
           /\ WriteFile(MainWatchers, p, t, c)
           /\ used' = used \cup {t}
    \/ \E p \in MainPaths : Unlink(MainWatchers, p) /\ UNCHANGED used
    \/ \E w \in MainWatchers, p \in MainPaths, o \in UserOptions, f \in FileStates :
           Construct(w, p, o, f) /\ Raced(files[p], f)
    \/ \E w \in MainWatchers, f \in FileStates, fatal \in BOOLEAN :
           Update(w, f, fatal) /\ Raced(files[options[w].filename], f)

SpecWriter == Init /\ [][NextWriter]_vars

(***************************************************************************)
(* What a consumer reads.                                                  *)
(***************************************************************************)
\* getJSON()
GetJSON(cfg) == cfg

\* JSON.stringify of an object of strings: the keys and values in order
RECURSIVE Stringify(_, _)
Stringify(o, i) ==
    IF i > Len(o.entries) THEN <<>>
    ELSE <<o.entries[i][1], ":", o.entries[i][2]>> \o Stringify(o, i + 1)

\* toString()
ToString(cfg) == Stringify(GetJSON(cfg), 1)

\* the getter of a property: this[symbolConfig][key]; a property that was
\* never defined reads undefined
ReadField(flds, cfg, key) ==
    IF key \in flds /\ key \in KeySet(cfg) THEN Get(cfg, key) ELSE "undefined"

(***************************************************************************)
(* The properties.                                                         *)
(***************************************************************************)
\* a step in which watcher w runs one cycle (in its constructor or from its
\* timer)
CycleStep(w) == last'[w].tick # last[w].tick

ModifyTime(w) == options[w].modifyTime

Failures == {"statfail", "readfail", "parsefail"}

EventTypes(events) == [i \in 1 .. Len(events) |-> events[i].type]

\* the objects the parsers make of the contents a file of that name may have
ParsedObjects(filename) ==
    {Parse(filename, c).value : c \in {x \in Texts : ~Parse(filename, x).threw}}

\* C1: a cycle in which the stat, the read or the parse fails leaves
\* currentConfig and lastModifiedTime as they were before the cycle; and
\* every entry of currentConfig is an entry of a successfully parsed content
C1_FailedCycleKeepsState ==
    /\ [][\A w \in Watchers :
            CycleStep(w) /\ last'[w].outcome \in Failures
                => /\ config'[w] = config[w]
                   /\ options'[w].modifyTime = ModifyTime(w)]_vars
    /\ [](\A w \in Watchers : \A i \in 1 .. Len(config[w].entries) :
            \E o \in ParsedObjects(options[w].filename) :
                \E j \in 1 .. Len(o.entries) : o.entries[j] = config[w].entries[i])

\* a cycle failed in the parse on a watcher that had loaded its file before
C1_Witness ==
    \E w \in Watchers :
        /\ last[w].outcome = "parsefail"
        /\ config[w] # EmptyObject
        /\ ModifyTime(w) # 0

\* C2: the key sets of currentConfig and of the exposed fields never shrink;
\* a successful reload keeps every key that the parsed mapping lacks, with
\* its value, and gives every key of the parsed mapping its new value
C2_Accumulation ==
    [][\A w \in Watchers :
          /\ KeySet(config[w]) \subseteq KeySet(config'[w])
          /\ fields[w] \subseteq fields'[w]
          /\ CycleStep(w) /\ last'[w].outcome = "loaded"
                => LET c == last'[w].events[1].data
                   IN  /\ \A k \in KeySet(config[w]) \ KeySet(c) :
                              /\ k \in KeySet(config'[w])
                              /\ Get(config'[w], k) = Get(config[w], k)
                       /\ \A k \in KeySet(c) :
                              /\ k \in KeySet(config'[w])
                              /\ Get(config'[w], k) = Get(c, k)]_vars

\* a reload has overwritten host and kept port, which the new content lacks
C2_Witness ==
    \E w \in Watchers :
        /\ last[w].outcome = "loaded"
        /\ last[w].events[1].data = ModuleValue
        /\ config[w] = Obj(<<<<"host", "192.168.0.1">>, <<"port", "3309">>>>)

\* C3, as stated: when two consecutive polls of a watcher find the same
\* modification timestamp, the second neither reads nor parses the file
\* and emits no update event, whatever the first did
C3_SameTimestampNeverReads ==
    [][\A w \in Watchers :
          CycleStep(w) /\ last[w].stat # NoStat /\ last'[w].stat = last[w].stat
              => /\ ~Reads(last'[w])
                 /\ \A i \in 1 .. Len(last'[w].events) :
                        last'[w].events[i].type # "update"]_vars

\* C3, amended: when two consecutive polls of a watcher find the same
\* modification timestamp and the first of them did not fail in the read
\* or the parse, the second neither reads nor parses the file and emits no
\* event
C3_SameTimestampSkips ==
    [][\A w \in Watchers :
          (/\ CycleStep(w)
           /\ last[w].stat # NoStat
           /\ last'[w].stat = last[w].stat
           /\ last[w].outcome \notin {"readfail", "parsefail"})
              => /\ ~Reads(last'[w])
                 /\ last'[w].outcome = "unchanged"
                 /\ last'[w].events = <<>>]_vars

\* a timer poll found the timestamp of an earlier load and skipped the file
C3_Witness ==
    \E w \in Watchers :
        /\ last[w].op = "timer"
        /\ last[w].outcome = "unchanged"
        /\ last[w].stat = ModifyTime(w)
        /\ last[w].stat # 0
        /\ config[w] # EmptyObject

\* C4: when the file existed and was loaded at one poll and is gone at the
\* next, that cycle emits exactly one error event with a message and no
\* update event, and leaves currentConfig, lastModifiedTime, the exposed
\* fields, getJSON() and toString() as they were
C4_VanishedFile ==
    [][\A w \in Watchers :
          (/\ CycleStep(w)
           /\ last[w].outcome = "loaded"
           /\ last'[w].outcome \in {"statfail", "readfail"}
           /\ ~files'[options[w].filename].exists)
              => /\ EventTypes(last'[w].events) = <<"error">>
                 /\ last'[w].events[1].message # ""
                 /\ config'[w] = config[w]
                 /\ options'[w].modifyTime = ModifyTime(w)
                 /\ fields'[w] = fields[w]
                 /\ \A k \in fields[w] :
                        ReadField(fields'[w], config'[w], k)
                            = ReadField(fields[w], config[w], k)
                 /\ GetJSON(config'[w]) = GetJSON(config[w])
                 /\ ToString(config'[w]) = ToString(config[w])]_vars

\* the file of a loaded watcher is gone and its poll has failed in the stat
C4_Witness ==
    \E w \in Watchers :
        /\ last[w].op = "timer"
        /\ last[w].outcome = "statfail"
        /\ ~files[options[w].filename].exists
        /\ ToString(config[w]) = <<"host", ":", "127.0.0.1", "port", ":", "3309">>

\* C5: a timer poll that finds the file, unchanged during the cycle, with a
\* timestamp other than lastModifiedTime and a content that parses to a
\* mapping, leaves every key of that content readable with its new value
\* through the exposed field and through getJSON()
C5_Refresh ==
    [][\A w \in Watchers :
          LET f == files[options[w].filename]
              parsed == Parse(options[w].filename, f.content)
          IN  (/\ CycleStep(w)
               /\ last'[w].op = "timer"
               /\ files' = files
               /\ f.exists
               /\ f.mtime # ModifyTime(w)
               /\ ~parsed.threw
               /\ parsed.value.type = "object")
                  => \A k \in KeySet(parsed.value) :
                        /\ ReadField(fields'[w], config'[w], k) = Get(parsed.value, k)
                        /\ k \in KeySet(GetJSON(config'[w]))
                        /\ Get(GetJSON(config'[w]), k) = Get(parsed.value, k)]_vars

\* host has changed from 127.0.0.1 to 192.168.0.1 in a timer poll
C5_Witness ==
    \E w \in Watchers :
        /\ last[w].op = "timer"
        /\ last[w].outcome = "loaded"
        /\ "port" \in fields[w]
        /\ ReadField(fields[w], config[w], "host") = "192.168.0.1"

\* the listeners of w all return
Returning(ls) ==
    /\ \A i \in 1 .. Len(ls.update) : ls.update[i] # "raise"
    /\ \A i \in 1 .. Len(ls.error) : ls.error[i] # "raise"

\* C6: the constructor, run on an existing file whose content parses to a
\* mapping (with handlers that return), exposes every key of the mapping
\* with its value, delivers exactly one update event to the onupdate
\* handler and leaves exactly one poll scheduled after the interval
C6_ConstructionLoads ==
    [][\A w \in Watchers :
          LET p == options'[w].filename
              f == files[p]
              parsed == Parse(p, f.content)
          IN  (/\ CycleStep(w)
               /\ last'[w].op = "construct"
               /\ files' = files
               /\ f.exists
               /\ ~parsed.threw
               /\ parsed.value.type = "object"
               /\ Returning(listeners'[w]))
                  => /\ \A k \in KeySet(parsed.value) :
                            ReadField(fields'[w], config'[w], k) = Get(parsed.value, k)
                     /\ EventTypes(last'[w].events) = <<"update">>
                     /\ last'[w].events[1].calls = Len(listeners'[w].update)
                     /\ timers'[w] = <<options'[w].interval>>]_vars

\* the first cycle failed: in the stat, the read or the parse, or on a parse
\* result that Object.keys rejects
LoadFailures == Failures \cup {"notmapping"}

\* C7, as stated: construction raises exactly when the first load fails and
\* no onerror handler was given; with an onerror handler (one that returns)
\* a failing first load raises nothing, delivers exactly one error event
\* with its message to the handler and leaves getJSON() empty
C7_RaisesIffUnhandledFailure ==
    [][\A w \in Watchers :
          CycleStep(w) /\ last'[w].op = "construct" /\ options'[w].onerror # "raise"
              => LET failed == last'[w].outcome \in LoadFailures
                     given == listeners'[w].error # <<>>
                 IN  /\ last'[w].raised <=> (failed /\ ~given)
                     /\ (failed /\ given)
                            => /\ ~last'[w].raised
                               /\ EventTypes(last'[w].events) = <<"error">>
                               /\ last'[w].events[1].calls = 1
                               /\ last'[w].events[1].message # ""
                               /\ GetJSON(config'[w]) = EmptyObject]_vars

\* C7, amended: construction raises exactly when the first cycle fails (in
\* the stat, the read or the parse, on a null or undefined parse result, or
\* in a raising onupdate handler) and the error event has no handler or a
\* handler that raises; with an onerror handler that returns, a failing
\* first load raises nothing, delivers exactly one error event with its
\* message to the handler and leaves getJSON() empty
C7_RaisesIffErrorEmitThrows ==
    [][\A w \in Watchers :
          CycleStep(w) /\ last'[w].op = "construct"
              => LET failed == last'[w].outcome \in LoadFailures
                     handlerRaised == /\ last'[w].outcome = "loaded"
                                      /\ options'[w].onupdate = "raise"
                     onerror == options'[w].onerror
                 IN  /\ last'[w].raised
                            <=> ((failed \/ handlerRaised) /\ onerror # "ok")
                     /\ (status'[w] = "threw") <=> last'[w].raised
                     /\ (failed /\ onerror = "ok")
                            => /\ ~last'[w].raised
                               /\ EventTypes(last'[w].events) = <<"error">>
                               /\ last'[w].events[1].calls = 1
                               /\ last'[w].events[1].message # ""
                               /\ GetJSON(config'[w]) = EmptyObject]_vars

\* a constructor has raised on a file that does not parse, for want of an
\* onerror handler
C7_Witness ==
    \E w \in Watchers :
        /\ status[w] = "threw"
        /\ last[w].op = "construct"
        /\ last[w].outcome = "parsefail"
        /\ listeners[w].error = <<>>

\* C8: no timer-driven cycle of a constructed watcher (with handlers that
\* return, or none) lets an exception out of update() or ends the process
C8_TimerCycleNeverRaises ==
    [][\A w \in Watchers :
          CycleStep(w) /\ last'[w].op = "timer" /\ Returning(listeners[w])
              => ~last'[w].raised /\ ~crashed']_vars

\* C9: every timer-driven cycle (with handlers that return, or none),
\* whatever its outcome, ends with exactly one next poll scheduled after
\* the interval
C9_AlwaysRescheduled ==
    [][\A w \in Watchers :
          CycleStep(w) /\ last'[w].op = "timer" /\ Returning(listeners[w])
              => timers'[w] = <<options[w].interval>>]_vars

\* C10: a cycle emits at most one event: one update event with the freshly
\* parsed mapping after a successful parse, one error event after a
\* failure, none when the timestamp was unchanged
C10_OneEventPerCycle ==
    [][\A w \in Watchers :
          CycleStep(w)
              => LET p == options'[w].filename
                     events == last'[w].events
                 IN  /\ Len(events) <= 1
                     /\ last'[w].outcome = "loaded"
                            => /\ EventTypes(events) = <<"update">>
                               /\ events[1].data = Parse(p, files'[p].content).value
                     /\ last'[w].outcome \in LoadFailures
                            => EventTypes(events) = <<"error">>
                     /\ last'[w].outcome = "unchanged" => events = <<>>]_vars

\* C11: at the end of every cycle the exposed fields are the keys of
\* currentConfig, and each exposed field reads the value currentConfig has
\* for its key, also for a key the latest reload did not touch
C11_Projection ==
    \A w \in Watchers :
        /\ fields[w] = KeySet(config[w])
        /\ \A k \in KeySet(config[w]) :
               ReadField(fields[w], config[w], k) = Get(config[w], k)

\* a reload without the key port has left the field port readable
C11_Witness ==
    \E w \in Watchers :
        /\ last[w].op = "timer"
        /\ last[w].outcome = "loaded"
        /\ "port" \notin KeySet(last[w].events[1].data)
        /\ fields[w] = {"host", "port"}
        /\ ReadField(fields[w], config[w], "port") = "3309"

\* C12: a watcher never has more than one poll pending; a timer cycle
\* takes the one pending timer and arms the next only when its synchronous
\* work, the delivery of its events included, has ended without an
\* exception
C12_OneTimer ==
    /\ [](\A w \in Watchers : Len(timers[w]) <= 1)
    /\ [][\A w \in Watchers :
            CycleStep(w)
                => /\ last'[w].op = "timer" => Len(timers[w]) = 1
                   /\ Len(timers'[w]) <= 1
                   /\ last'[w].raised => timers'[w] = <<>>]_vars

\* a timer cycle has delivered an event and armed the next poll
C12_Witness ==
    \E w \in Watchers :
        /\ last[w].op = "timer"
        /\ Len(last[w].events) = 1
        /\ last[w].events[1].calls = 1
        /\ Len(timers[w]) = 1

\* a listener of the event raised when the cycle called it
HandlerRaised(ls, events) ==
    \E i \in 1 .. Len(events) :
        /\ events[i].calls > 0
        /\ ls[events[i].type][events[i].calls] = "raise"

\* C13: when an onupdate or onerror handler raises in a cycle, the
\* exception leaves update() and the cycle schedules no next poll
C13_HandlerExceptionPropagates ==
    [][\A w \in Watchers :
          CycleStep(w) /\ HandlerRaised(listeners'[w], last'[w].events)
              => /\ last'[w].raised
                 /\ timers'[w] = <<>>]_vars

\* C14: a cycle (with handlers that return, or none) that changes
\* lastModifiedTime merges the parsed value and emits exactly one update
\* event and no error event; a cycle that emits an error event changes
\* neither lastModifiedTime nor currentConfig
C14_ModifyTimeOnlyOnReload ==
    [][\A w \in Watchers :
          CycleStep(w) /\ Returning(listeners'[w])
              => /\ options'[w].modifyTime # ModifyTime(w)
                        => /\ last'[w].outcome = "loaded"
                           /\ EventTypes(last'[w].events) = <<"update">>
                 /\ (\E i \in 1 .. Len(last'[w].events) :
                         last'[w].events[i].type = "error")
                        => /\ options'[w].modifyTime = ModifyTime(w)
                           /\ config'[w] = config[w]]_vars

\* C15, as stated: lastModifiedTime starts at 0 and never decreases
C15_Monotonic ==
    /\ \A w \in Watchers : status[w] = "none" => ModifyTime(w) = 0
    /\ [][\A w \in Watchers : options'[w].modifyTime >= ModifyTime(w)]_vars

\* C15, amended: lastModifiedTime starts at 0 and is changed only by a
\* cycle whose stat finds another timestamp and whose parser returns; it
\* then is the timestamp the stat found, newer or older, so that it never
\* decreases as long as the timestamps the stats find do not
C15_FollowsStat ==
    /\ \A w \in Watchers : status[w] = "none" => ModifyTime(w) = 0
    /\ [][\A w \in Watchers :
            /\ options'[w].modifyTime # ModifyTime(w)
                   => /\ CycleStep(w)
                      /\ last'[w].outcome \in {"loaded", "notmapping"}
            /\ CycleStep(w) /\ last'[w].outcome \in {"loaded", "notmapping"}
                   => options'[w].modifyTime = last'[w].stat
            /\ CycleStep(w) /\ last'[w].outcome = "unchanged"
                   => last'[w].stat = ModifyTime(w)
            /\ CycleStep(w) /\ last'[w].stat >= ModifyTime(w)
                   => options'[w].modifyTime >= ModifyTime(w)]_vars

\* a timer poll has loaded a file of timestamp 0: lastModifiedTime, which
\* differed from it, has decreased
C15_Witness ==
    \E w \in Watchers :
        /\ last[w].op = "timer"
        /\ last[w].outcome = "loaded"
        /\ last[w].stat = 0
        /\ ModifyTime(w) = 0

\* the extensions that are .yaml, .yml or .json but for the case of their
\* letters
MarkupExtensions ==
    {".yaml", ".YAML", ".Yaml", ".yml", ".YML", ".Yml", ".json", ".JSON", ".Json"}

\* what a cycle does with the result of a parser
AfterParser(parsed) ==
    IF parsed.threw THEN "parsefail"
    ELSE IF parsed.value.type = "null" THEN "notmapping" ELSE "loaded"

\* C16: a cycle that parses uses the YAML parser exactly when the
\* extension of the filename is .yaml, .yml or .json in any case of its
\* letters; otherwise it evaluates the content as a module body exactly
\* when the content contains module.exports, and as an expression when it
\* does not; it applies one mode, and goes on with what the parser of that
\* mode makes of the content
C16_ParseDispatch ==
    [][\A w \in Watchers :
          CycleStep(w) /\ last'[w].read
              => LET p == options'[w].filename
                     c == files'[p].content
                     markup == ExtName(p) \in MarkupExtensions
                     exports == HasModuleExports(c)
                     parsed == IF markup THEN SafeLoad(c)
                               ELSE IF exports THEN EvalModule(c)
                               ELSE EvalExpression(c)
                 IN  /\ last'[w].mode \in {"yaml", "module", "expression"}
                     /\ last'[w].mode = "yaml" <=> markup
                     /\ last'[w].mode = "module" <=> (~markup /\ exports)
                     /\ last'[w].mode = "expression" <=> (~markup /\ ~exports)
                     /\ last'[w].outcome = AfterParser(parsed)
                     /\ last'[w].outcome = "loaded"
                            => last'[w].events[1].data = parsed.value]_vars

\* the YAML parser has loaded a file of extension .YAML whose content
\* names module.exports in a string
C16_Witness ==
    \E w \in Watchers :
        /\ options[w].filename = "test1.YAML"
        /\ last[w].mode = "yaml"
        /\ last[w].outcome = "loaded"
        /\ files["test1.YAML"].content = TextQuoted
        /\ "note" \in fields[w]

\* C17: no cycle of a watcher changes the currentConfig, the
\* lastModifiedTime or the exposed fields of another watcher, takes its
\* pending poll away or keeps that poll from running
C17_Independent ==
    [][\A a \in Watchers : \A b \in Watchers \ {a} :
          CycleStep(a)
              => /\ config'[b] = config[b]
                 /\ options'[b] = options[b]
                 /\ fields'[b] = fields[b]
                 /\ timers'[b] = timers[b]
                 /\ timers[b] # <<>> => ~crashed']_vars

\* currentConfig has every key of the mapping with the value of the mapping
Agrees(cfg, c) ==
    \A k \in KeySet(c) : k \in KeySet(cfg) /\ Get(cfg, k) = Get(c, k)

\* C18: with a writer whose timestamps are fresh, whenever no cycle runs
\* and lastModifiedTime is the timestamp of the file, currentConfig agrees
\* with the mapping the content of the file parses to; and a cycle that
\* parses a file written between its stat and its read does not take the
\* timestamp of that file, so that the next poll reads it again
C18_Consistent ==
    /\ [](\A w \in Watchers :
            IF status[w] = "none" THEN TRUE
            ELSE LET f == files[options[w].filename]
                     parsed == Parse(options[w].filename, f.content)
                 IN  (/\ f.exists
                      /\ ModifyTime(w) = f.mtime
                      /\ ~parsed.threw
                      /\ parsed.value.type = "object")
                         => Agrees(config[w], parsed.value))
    /\ [][\A w \in Watchers :
            CycleStep(w)
                => LET p == options'[w].filename
                   IN  (/\ files'[p] # files[p]
                        /\ files'[p].exists
                        /\ last'[w].outcome \in {"loaded", "notmapping"})
                           => options'[w].modifyTime # files'[p].mtime]_vars

\* the file has been written twice and a timer poll has loaded it: its
\* timestamp is lastModifiedTime and its mapping is in currentConfig
C18_Witness ==
    \E w \in Watchers :
        /\ status[w] = "ok"
        /\ Cardinality(used) >= 2
        /\ last[w].op = "timer"
        /\ last[w].outcome = "loaded"
        /\ files[options[w].filename].exists
        /\ files[options[w].filename].mtime = ModifyTime(w)
        /\ last[w].stat = ModifyTime(w)
        /\ config[w] = Obj(<<<<"host", "192.168.0.1">>, <<"port", "3309">>>>)

====
